---- MODULE Spec2Model ----
(***************************************************************************)
(* The OTP engine of src/src/index.ts: one instance (its private fields),  *)
(* its constructor and its four operations hotp, totp, hotpVerify and      *)
(* totpVerify, with the helpers numberToWordArray and wordArrayToBytes.    *)
(*                                                                         *)
(* JavaScript values are modelled as follows.                              *)
(*   - an optional option is a set: {} when it is undefined, {v} when it   *)
(*     is given with value v; "a ?? b" is Coalesce(a, b);                  *)
(*   - a string is a sequence of one-character strings;                    *)
(*   - a number that can be Infinity or NaN (a counter) is a record        *)
(*     [k, n]; timestamps, periods, windows and digits are integers;       *)
(*   - a CryptoJS WordArray is [words, sigBytes], words being signed       *)
(*     32-bit integers as CryptoJS keeps them.                             *)
(* The keyed hash itself is the external primitive: HmacTable holds the    *)
(* digests HMAC-SHA1/256/512 give for the keys and messages the model      *)
(* reaches (the key being the base32-decoded secret).                      *)
(***************************************************************************)
EXTENDS Integers, Sequences, FiniteSets, TLC

VARIABLES
    status,     \* "constructed", or "failed" when the constructor threw
    algorithm,  \* #algorithm
    digits,     \* #digits
    secret,     \* #secret
    period,     \* #period
    hash,       \* #hash
    last,       \* the last call: its options, what it returned, hotp's locals
    held        \* the code a session's caller keeps from its last totp call

vars == <<status, algorithm, digits, secret, period, hash, last, held>>

----------------------------------------------------------------------------
(* Bounds of the model. *)

\* the calls are given the timestamps 0 and, for k in 1..MaxTick, k ticks and
\* the millisecond before
MaxTick == 2
\* hotp and hotpVerify are called with the counters 0..MaxCounter
MaxCounter == 2
\* totpVerify is called with the windows -1..MaxWindow
MaxWindow == 1
\* the largest digit count an instance is constructed with
MaxDigits == 8
\* a session generates its code in the steps 0..MaxStartStep
MaxStartStep == 1

----------------------------------------------------------------------------
(* JavaScript values. *)

Undefined == {}

Some(v) == {v}

\* a ?? b
Coalesce(opt, default) == IF opt = Undefined THEN default ELSE CHOOSE v \in opt : TRUE

Finite(n) == [k |-> "finite", n |-> n]

Infinity == [k |-> "Infinity", n |-> 0]

NegInfinity == [k |-> "-Infinity", n |-> 0]

NaN == [k |-> "NaN", n |-> 0]

\* x + i for a number x and an integer i
NumAdd(x, i) == IF x.k = "finite" THEN Finite(x.n + i) ELSE x

\* the powers of two up to 2^30
PowersOf2 ==
    <<1, 2, 4, 8, 16, 32, 64, 128, 256, 512, 1024, 2048, 4096, 8192, 16384, 32768, 65536,
      131072, 262144, 524288, 1048576, 2097152, 4194304, 8388608, 16777216, 33554432,
      67108864, 134217728, 268435456, 536870912, 1073741824>>

Pow2(n) == PowersOf2[n + 1]

Pow10(n) == 10 ^ n

HexChars == <<"0", "1", "2", "3", "4", "5", "6", "7", "8", "9", "a", "b", "c", "d", "e", "f">>

DecChars == <<"0", "1", "2", "3", "4", "5", "6", "7", "8", "9">>

RECURSIVE NatToString(_, _)
\* the digits of the natural number n in the given radix (10 or 16)
NatToString(n, radix) ==
    IF n < radix
    THEN <<HexChars[n + 1]>>
    ELSE Append(NatToString(n \div radix, radix), HexChars[(n % radix) + 1])

\* Number.prototype.toString(radix)
NumToString(x, radix) ==
    CASE x.k = "Infinity" -> <<"I", "n", "f", "i", "n", "i", "t", "y">>
      [] x.k = "-Infinity" -> <<"-", "I", "n", "f", "i", "n", "i", "t", "y">>
      [] x.k = "NaN" -> <<"N", "a", "N">>
      [] x.k = "finite" /\ x.n < 0 -> <<"-">> \o NatToString(-x.n, radix)
      [] OTHER -> NatToString(x.n, radix)

\* the string of n characters ch (empty when n <= 0)
Repeat(ch, n) == [i \in 1..n |-> ch]

\* String.prototype.padStart(targetLength, ch)
PadStart(str, targetLength, ch) == Repeat(ch, targetLength - Len(str)) \o str

\* the value of each hexadecimal digit
HexDigitValue ==
    ("0" :> 0) @@ ("1" :> 1) @@ ("2" :> 2) @@ ("3" :> 3) @@ ("4" :> 4) @@ ("5" :> 5) @@
    ("6" :> 6) @@ ("7" :> 7) @@ ("8" :> 8) @@ ("9" :> 9) @@ ("a" :> 10) @@ ("b" :> 11) @@
    ("c" :> 12) @@ ("d" :> 13) @@ ("e" :> 14) @@ ("f" :> 15)

\* parseInt(pair, 16) of a two-character string: {} is NaN
ParseInt16(pair) ==
    IF pair[1] = "-"
    THEN IF pair[2] \in DOMAIN HexDigitValue THEN {-HexDigitValue[pair[2]]} ELSE {}
    ELSE IF pair[1] \notin DOMAIN HexDigitValue THEN {}
    ELSE IF pair[2] \notin DOMAIN HexDigitValue THEN {HexDigitValue[pair[1]]}
    ELSE {16 * HexDigitValue[pair[1]] + HexDigitValue[pair[2]]}

MinInt32 == -2147483647 - 1

\* v << s on 32-bit integers, for s in 0..24
Shl32(v, s) ==
    IF s = 0
    THEN v
    ELSE LET m == Pow2(32 - s)
             r == v % m
         IN  IF r >= m \div 2 THEN (r - m) * Pow2(s) ELSE r * Pow2(s)

\* bit i (0..30) of the 32-bit integer a
Bit(a, i) == (a \div Pow2(i)) % 2

RECURSIVE OrBits(_, _, _)
OrBits(a, b, i) ==
    IF i < 0
    THEN 0
    ELSE (IF Bit(a, i) = 1 \/ Bit(b, i) = 1 THEN Pow2(i) ELSE 0) + OrBits(a, b, i - 1)

\* whether b lies in the low 8, 16 or 24 bits and a has those bits clear
BelowBits(a, b) ==
    /\ b >= 0
    /\ \/ b < 256 /\ a % 256 = 0
       \/ b < 65536 /\ a % 65536 = 0
       \/ b < 16777216 /\ a % 16777216 = 0

\* a | b on 32-bit integers; it is a + b when the two share no bit
Or32(a, b) ==
    IF a = 0 THEN b
    ELSE IF b = 0 THEN a
    ELSE IF BelowBits(a, b) THEN a + b
    ELSE IF a < 0 \/ b < 0 THEN OrBits(a, b, 30) + MinInt32 ELSE OrBits(a, b, 30)

\* parseInt(hexStr.substr(i, 2), 16) << shift, NaN << shift being 0
HexPair(hexStr, i, shift) ==
    IF i >= Len(hexStr)
    THEN 0
    ELSE Shl32(Coalesce(ParseInt16(<<hexStr[i + 1], hexStr[i + 2]>>), 0), shift)

\* word k of CryptoJS.enc.Hex.parse(hexStr): for each i from 0 in steps of 2,
\* words[i >>> 3] |= parseInt(hexStr.substr(i, 2), 16) << (24 - (i % 8) * 4)
HexParseWord(hexStr, k) ==
    Or32(Or32(Or32(HexPair(hexStr, 8 * k, 24), HexPair(hexStr, 8 * k + 2, 16)),
              HexPair(hexStr, 8 * k + 4, 8)),
         HexPair(hexStr, 8 * k + 6, 0))

\* CryptoJS.enc.Hex.parse
HexParse(hexStr) ==
    [words |-> [k \in 1..((Len(hexStr) + 7) \div 8) |-> HexParseWord(hexStr, k - 1)],
     sigBytes |-> Len(hexStr) \div 2]

numberToWordArray(counter) == HexParse(PadStart(NumToString(counter, 16), 16, "0"))

\* bytes.push((wordArray.words[i >>> 2] >>> (24 - (i % 4) * 8)) & 0xff)
wordArrayToBytes(wordArray) ==
    [b \in 1..wordArray.sigBytes |->
        LET i == b - 1
        IN  (wordArray.words[(i \div 4) + 1] \div Pow2(24 - (i % 4) * 8)) % 256]

----------------------------------------------------------------------------
(* The keyed-hash primitive. *)

\* the secret of the tests: '12345678901234567890' in base32
RFCSecret == "GEZDGNBVGY3TQOJQGEZDGNBVGY3TQOJQ"

\* another secret of 20 bytes in base32, as generateSecret returns them
OtherSecret == "JBSWY3DPEHPK3PXPJBSWY3DPEHPK3PXP"

\* HMAC-SHA1 digests under the key of GEZDGNBVGY3TQOJQGEZDGNBVGY3TQOJQ, by message words
HmacSHA1RFC ==
    (<<0, -12>> :> <<-415344113, -1650288305, 1575843130, -547258474, -609455934>>) @@
    (<<0, -11>> :> <<1259237546, -770297090, 1873829546, -2132180208, 1720139520>>) @@
    (<<0, -10>> :> <<857448472, 316331408, 327852173, -557336271, 463538556>>) @@
    (<<0, -9>> :> <<1983047992, -1523114425, -1708258364, -946560725, -2038200168>>) @@
    (<<0, -8>> :> <<-413801293, 1689758681, -214921046, -214467745, 198310417>>) @@
    (<<0, -7>> :> <<-179264797, -528974448, -848925587, 1375836835, 931199881>>) @@
    (<<0, -6>> :> <<237272060, -1350455748, -1060467277, -748552714, 151432984>>) @@
    (<<0, -5>> :> <<1601811054, 1201221420, -2079475724, 467182450, -1547908275>>) @@
    (<<0, -4>> :> <<-720130936, -1684746377, -105423706, 121846301, 1746139191>>) @@
    (<<0, -3>> :> <<1190442454, -702928682, -1728238018, -866317330, -2013296367>>) @@
    (<<0, -2>> :> <<-1937323364, 661395912, 904138629, -1484583267, 21442856>>) @@
    (<<0, -1>> :> <<630149964, 102040441, -290156795, -2043721506, -952123887>>) @@
    (<<0, 0>> :> <<-862728424, 1351455891, 1281668701, -1951963521, -1211243344>>) @@
    (<<0, 1>> :> <<1973717529, -724836096, 1682868929, 964618868, 2049782699>>) @@
    (<<0, 2>> :> <<195868666, 137359152, 2015498643, -1950235161, 68616004>>) @@
    (<<0, 3>> :> <<1724023335, -801493675, 690368496, 379709167, 1985314510>>) @@
    (<<0, 4>> :> <<-1459304192, -1505020528, -1737182402, 1640338314, -1911165668>>) @@
    (<<0, 5>> :> <<-1551992771, 2071081920, -2083195351, 650617439, 596443926>>) @@
    (<<0, 6>> :> <<-1130573179, 1627663491, -233229747, 1012953686, -1070435666>>) @@
    (<<0, 7>> :> <<-1527015924, 197160478, -1414003483, -1281897020, -1269459206>>) @@
    (<<0, 8>> :> <<456952310, 1584176776, 806487336, 591675140, -1958530341>>) @@
    (<<0, 9>> :> <<372719768, 161905116, 1770129201, 210534336, 1922095589>>) @@
    (<<0, 10>> :> <<-1684154897, -1701129635, -683935316, -827953271, -1591351181>>) @@
    (<<0, 11>> :> <<-904002558, -1046553752, 624139936, 339676142, 1425804736>>) @@
    (<<0, 12>> :> <<450557104, -1086306608, 1457057806, 1248499363, 1808373767>>) @@
    (<<0, 13>> :> <<1069186954, 613255160, -1497430118, 1144075748, -1868383290>>) @@
    (<<0, 14>> :> <<91033820, 738533376, -867199491, -807853564, 863157913>>) @@
    (<<0, 15>> :> <<1956528008, 760142541, -873881672, -1389788014, -1920402522>>) @@
    (<<0, 16>> :> <<719160180, 640042971, -1033052976, 1622186581, -1107747652>>) @@
    (<<0, 17>> :> <<857938559, 686409923, 1969067454, 894447589, 1079401564>>) @@
    (<<0, 18>> :> <<-582119072, -1764597253, 2126302031, 1545190587, 1264758423>>) @@
    (<<0, 19>> :> <<-935482758, -121631435, 73526506, -229925879, 314479942>>) @@
    (<<0, 20>> :> <<-2000032280, 1503257016, 261713678, 303353678, -866904239>>) @@
    (<<0, 21>> :> <<1729793283, 291063628, -2015655945, 2105191635, 1331477036>>) @@
    (<<0, 22>> :> <<92198523, -412512880, 704276471, 690102401, -969594325>>) @@
    (<<0, 23>> :> <<-543831413, -1503482352, 562210180, -196319870, 695838085>>) @@
    (<<0, 24>> :> <<1249256226, -1261546930, -154151690, -864417558, 1114042759>>) @@
    (<<0, 983040>> :> <<-581595272, -2100895961, -996830850, 560080018, -1900955960>>)

\* HMAC-SHA1 digests under the key of JBSWY3DPEHPK3PXPJBSWY3DPEHPK3PXP, by message words
HmacSHA1Other ==
    (<<0, -12>> :> <<113882791, 1861842823, 2059549990, 1619634983, -542605132>>) @@
    (<<0, -11>> :> <<-31412431, 2147283936, -2054973315, -1175922096, -1620611400>>) @@
    (<<0, -10>> :> <<1391855436, -1512972266, -1033886578, -1808355404, 340006265>>) @@
    (<<0, -9>> :> <<1645956587, 1040319279, 1123860728, -1961427748, 1029118115>>) @@
    (<<0, -8>> :> <<723168075, -856159090, -1544055003, 298040840, -27481274>>) @@
    (<<0, -7>> :> <<-1739964067, 682745035, -1325668390, -1764614837, 784560012>>) @@
    (<<0, -6>> :> <<-539501355, 1336648860, -1463931250, 451727853, -549776566>>) @@
    (<<0, -5>> :> <<1215388093, -1716212490, -1238064816, -1923177340, 878272611>>) @@
    (<<0, -4>> :> <<-550681719, 2104120018, 871427855, -1563364270, 1671598597>>) @@
    (<<0, -3>> :> <<699708770, 206528084, -293851863, 1042565803, 1036077047>>) @@
    (<<0, -2>> :> <<1115376793, -485019993, 697911036, -859951570, 309407404>>) @@
    (<<0, -1>> :> <<-1694317852, -747103904, -1030510218, 1242038111, 2134131596>>) @@
    (<<0, 0>> :> <<-1843376349, 1483702218, -13753553, 1637447345, 44674036>>) @@
    (<<0, 1>> :> <<35372804, 1944023356, 193078455, -301695805, 735248065>>) @@
    (<<0, 2>> :> <<839598435, 768423624, -1021539640, 5045139, -1240395293>>) @@
    (<<0, 3>> :> <<1117926475, -1571128145, 930111507, -490042773, 814092648>>) @@
    (<<0, 4>> :> <<-93029144, 508185249, -328959806, 317500297, 1364026094>>) @@
    (<<0, 5>> :> <<-247027553, 926717860, 578676588, -855394592, 756277666>>) @@
    (<<0, 6>> :> <<-772337669, -1992352941, 1474003382, 2077649680, -699561507>>) @@
    (<<0, 7>> :> <<-142778530, -817895325, 1652905357, -1273141472, 2124924920>>) @@
    (<<0, 8>> :> <<-490516960, -1938169255, 1689639393, 1980576340, -2011341848>>) @@
    (<<0, 9>> :> <<-1518931363, -525878967, -1508991396, 582413813, -708685087>>) @@
    (<<0, 10>> :> <<-593481999, -119738052, 1750211033, -761225863, -1749190537>>) @@
    (<<0, 11>> :> <<1449154259, -536426881, 1753208548, -1549237564, 1758118007>>) @@
    (<<0, 12>> :> <<856588244, -720096354, -817558928, 570172958, -1060855285>>) @@
    (<<0, 13>> :> <<1554727163, -1155891511, -1650905304, 1488591588, -1823411717>>) @@
    (<<0, 14>> :> <<-430999420, 864347095, -1770437338, 1342790601, -202981639>>) @@
    (<<0, 15>> :> <<-834513343, -1843059173, 520485594, -100725306, -156331940>>) @@
    (<<0, 16>> :> <<770390897, 771387727, 1716495288, -2026100524, -912694358>>) @@
    (<<0, 17>> :> <<-1630921849, -470518276, -185100428, -801997962, -345761715>>) @@
    (<<0, 18>> :> <<-1951196767, 1052093552, -1875554881, 178279648, -146981322>>) @@
    (<<0, 19>> :> <<-578119735, 943918186, 2012497860, -1906441891, -442233727>>) @@
    (<<0, 20>> :> <<-1077474137, 677341206, -1194140381, 1262239623, 913472830>>) @@
    (<<0, 21>> :> <<692926572, -689486741, 966959388, 1214247283, 629469612>>) @@
    (<<0, 22>> :> <<2072183922, 690815901, 1643740522, -816893132, 667281114>>) @@
    (<<0, 23>> :> <<-959065877, -1737157531, 526286616, -422512096, -433353625>>) @@
    (<<0, 24>> :> <<-1929405360, -552315112, 77204076, -664827945, 750597997>>) @@
    (<<0, 983040>> :> <<-1913568931, -764981719, 2077362145, 1427342524, 1224415449>>)

\* HMAC-SHA256 digests under the key of GEZDGNBVGY3TQOJQGEZDGNBVGY3TQOJQ, by message words
HmacSHA256RFC ==
    (<<0, -12>> :> <<994383133, -1739011656, 2000276655, -174216303, -513228668, 1065156668, 1846589939, -304662335>>) @@
    (<<0, -11>> :> <<-1569197300, 2047576188, 1906062370, 33591190, 869262151, 153825009, -188191355, 1830989988>>) @@
    (<<0, -10>> :> <<-1726939821, -1252927711, 1845923001, 1342805208, -1368535475, 369326161, -1604749063, 1344404733>>) @@
    (<<0, -9>> :> <<-1279785698, -1110541882, 1851968840, 100818745, -841478153, 503866960, -1065046467, -46440399>>) @@
    (<<0, -8>> :> <<1085321957, -1158322530, -1938728566, 2049074007, -1152754183, 159785778, -385312845, -951174991>>) @@
    (<<0, -7>> :> <<1096685799, 868733710, -384198672, 1815018160, 133893447, 2062531357, -1570688028, -833818329>>) @@
    (<<0, -6>> :> <<-854040115, -1855531682, 500207434, -1652428268, 1727559943, 1362027066, 1004152846, -199485988>>) @@
    (<<0, -5>> :> <<-667464868, 1802428191, -153890909, 2120740054, -1432322658, -568107042, -1653586086, 1091149283>>) @@
    (<<0, -4>> :> <<676241246, -1682770092, -1951495221, -965736210, 420308816, -234996190, 490159214, -1326505116>>) @@
    (<<0, -3>> :> <<1788445043, 1273553579, 1693641248, -1465846541, 1540354168, -179192620, -1970090943, -1126240178>>) @@
    (<<0, -2>> :> <<-1413487044, -45023987, -1856353632, -668285518, 192431587, -346536560, -203790984, -1355084193>>) @@
    (<<0, -1>> :> <<-231618798, -1035536956, 915077843, -383147242, 905163877, 769298540, 1309462939, 1385416112>>) @@
    (<<0, 0>> :> <<1253674491, -1288461509, 360426519, 1551184903, 1803650251, -598129799, -1668016323, -1805140743>>) @@
    (<<0, 1>> :> <<-325234840, 2068774506, -867037178, 1919290244, -1058594549, -1606934207, -118703865, -1765099246>>) @@
    (<<0, 2>> :> <<-322432231, -1017747252, 1323910888, -1041884295, -992581968, -654661263, 992303708, 1403591321>>) @@
    (<<0, 3>> :> <<91247655, -919678879, -1126240697, 463988914, -21725921, -1026099293, -387601552, 2117885955>>) @@
    (<<0, 4>> :> <<-378552197, -1732252255, 1386385417, 1890050274, -580118859, -179907667, 423115432, 1163017822>>) @@
    (<<0, 5>> :> <<-644936584, 2062371898, -377118139, -528131922, -849954350, 1441120010, 2018935784, -719187171>>) @@
    (<<0, 6>> :> <<-103799256, -1938227083, -1354740573, 471976019, -2012464737, -854544447, -1238050068, 1524737842>>) @@
    (<<0, 7>> :> <<-423900275, -1181218882, -1649725309, 10950915, -1632043171, -1854211917, -1191200797, -2112621070>>) @@
    (<<0, 8>> :> <<-503395321, -1610448867, 910906649, 1883895912, 1146826225, 33282895, -1582581419, -890970900>>) @@
    (<<0, 9>> :> <<-171291309, 1777441305, 671281601, 755846536, 1571313401, -679245595, 1890509596, 612288125>>) @@
    (<<0, 10>> :> <<-1039524608, -1192142962, 731153331, 123915253, 1781158718, -632528426, 337349705, 1791384706>>) @@
    (<<0, 11>> :> <<-770378517, -1834959933, 802871090, -1154563052, 1407814348, 528016399, -530592806, 731626691>>) @@
    (<<0, 12>> :> <<-611123178, -938176272, -1360363776, -850749609, 819582024, -114514206, 1953648233, -1431779120>>) @@
    (<<0, 13>> :> <<312047875, 932740593, -1711660775, -1511390970, -371158140, 1546164561, 2127203776, -1912786649>>) @@
    (<<0, 14>> :> <<1360240307, 1906500888, 63895922, -2001584651, 421904557, -54112538, 1938518405, -1680357451>>) @@
    (<<0, 15>> :> <<-1193182265, 1775615398, -1671075758, 1155233738, -1717366715, -908406006, 911987563, -1116979106>>) @@
    (<<0, 16>> :> <<773522642, 762365814, -24859378, -845416171, 400183578, -460371649, 1605531096, 1204894949>>) @@
    (<<0, 17>> :> <<-1316263766, -400780706, -426125960, 1432263019, 1722533121, -1522716234, -1439378308, -1886860715>>) @@
    (<<0, 18>> :> <<14213429, 446839779, -1338538032, 749938955, 820744107, 1789480385, -1077660655, 820951076>>) @@
    (<<0, 19>> :> <<-1499163774, 1616418362, -422771748, 1989292642, 28435985, -2140950539, -1000573288, 930691794>>) @@
    (<<0, 20>> :> <<-659451775, 1456921549, 2049209685, 1947590163, 899535571, 1090695440, 551152848, 1314560740>>) @@
    (<<0, 21>> :> <<-1748772298, 1567883362, 1480885752, -1649434971, 2113257191, -1198658231, 630753960, -8999012>>) @@
    (<<0, 22>> :> <<166452991, 1460903317, -190311644, -683986526, 199007649, -1559833251, 1913036817, 1100347237>>) @@
    (<<0, 23>> :> <<141741865, 1017518818, -482559260, 405819428, -2099436067, -1333215278, 75766221, 1338783331>>) @@
    (<<0, 24>> :> <<-326590808, -1649885179, -1432304525, -703212608, 756006910, -2050982683, -1164517427, 1034307363>>) @@
    (<<0, 983040>> :> <<1387304120, 285349400, -58211469, 105147330, 1111488617, -1962643777, 926525156, 2100821230>>)

\* HMAC-SHA256 digests under the key of JBSWY3DPEHPK3PXPJBSWY3DPEHPK3PXP, by message words
HmacSHA256Other ==
    (<<0, -12>> :> <<-803328652, -1517031050, -1464209468, -1100580309, 43205968, -402827143, -1573134234, 1956399002>>) @@
    (<<0, -11>> :> <<-1597705854, -1806598742, -1305140381, 214681682, -121568581, -1375827127, -640120374, -1267972362>>) @@
    (<<0, -10>> :> <<-1437772307, 807888551, 1270790849, 1675771498, -218529446, -1538686369, 1792836498, -943656529>>) @@
    (<<0, -9>> :> <<1705213439, -1331796817, 645903485, -244112151, -96308790, -588749373, -1701365836, -1178420438>>) @@
    (<<0, -8>> :> <<-1106376829, 1602250018, -1333513607, -1617245435, -1078703182, -671417401, 418689819, -1747382286>>) @@
    (<<0, -7>> :> <<-749409858, -1073056719, -753250403, 1071727125, -640271804, 290086545, 752158844, -1477558601>>) @@
    (<<0, -6>> :> <<59295989, -1516029587, 1979564369, -654481947, 841635631, 16645377, 373811217, -922611950>>) @@
    (<<0, -5>> :> <<-768212964, -2080156554, -153171386, -587553130, -1739421138, 5227556, 1861837734, 974330538>>) @@
    (<<0, -4>> :> <<622770914, -1764693176, -1182443752, 744074322, 947469228, 2004005213, 1042590450, -1571607490>>) @@
    (<<0, -3>> :> <<-1364102757, -60037447, -511026101, 1859900970, 546013317, -281519750, 1816472675, 749636123>>) @@
    (<<0, -2>> :> <<-1675613690, 642270603, -1143560335, -1250129418, 1596186900, 647818124, 1650036993, -187655334>>) @@
    (<<0, -1>> :> <<-1918407938, -429608237, -1378411926, 1894786074, -864345655, -691801960, 1185151631, 509730147>>) @@
    (<<0, 0>> :> <<-400287509, -193179435, -1100098006, 565031423, -933908352, -1968931174, 400225895, 1499983372>>) @@
    (<<0, 1>> :> <<-1794525221, 629436550, 1598625857, -1205060955, 818869650, 1750825572, -297558588, -637521351>>) @@
    (<<0, 2>> :> <<-1818112865, 786218131, 1446270052, -1547083524, 1907639478, 481257295, -1161595742, -1741491751>>) @@
    (<<0, 3>> :> <<-959762577, 1971965892, -561232115, -1057909342, -480026583, 619697934, 1170579849, 1576087111>>) @@
    (<<0, 4>> :> <<305482117, 382857780, 822837233, 756268929, 808554744, 2040430416, -1382888037, -764951663>>) @@
    (<<0, 5>> :> <<842259814, -991724467, -309995255, 1500517720, -419541800, -2137397441, 706157987, -929641728>>) @@
    (<<0, 6>> :> <<1837700508, 454651513, -1776988484, 53758913, 458613101, 1627420567, -2073189364, 1233045873>>) @@
    (<<0, 7>> :> <<1236054967, 415821761, 1510243901, 1127821564, -1214361420, -1873819763, -1204692849, -1343770351>>) @@
    (<<0, 8>> :> <<2053812517, -495139117, 384128866, -1141565173, -1048995932, -1949695085, -1019557416, -1810376588>>) @@
    (<<0, 9>> :> <<-2089811859, -1348102782, 630848119, -1538451397, 646043938, -1836029896, 344800553, -275883836>>) @@
    (<<0, 10>> :> <<-547558250, 1372876274, 1614669232, -1201509780, 1534418941, 2125216437, -1687911891, 321407837>>) @@
    (<<0, 11>> :> <<499872801, 1118482941, -1546998766, -1024948690, -426095817, 1341798823, 1518570182, 1009681144>>) @@
    (<<0, 12>> :> <<994980126, 1347733338, 212867366, 1761858934, 1204057705, 1683296654, -1919575256, -1652945200>>) @@
    (<<0, 13>> :> <<-1125721665, -1181106015, -183583969, -1253741626, 891049638, -1595536029, -337363117, -671336721>>) @@
    (<<0, 14>> :> <<515576223, 965203413, 58867189, -1470289668, 1278167307, 1176584317, -280741813, -553087605>>) @@
    (<<0, 15>> :> <<293737720, -1373715510, -388097667, -1591939217, 426882253, -1198654674, 1600065243, 2092306017>>) @@
    (<<0, 16>> :> <<404937020, -790496438, 1456668716, -247233965, -1680678338, 599311028, 1258978332, 1780200076>>) @@
    (<<0, 17>> :> <<1337362351, -49551539, 530292173, 784962090, 1723296620, 1388315088, -305278694, -2005602529>>) @@
    (<<0, 18>> :> <<-1390219231, -1096517155, -348736467, -815242832, -241245556, -2070422956, 1852699983, -121058521>>) @@
    (<<0, 19>> :> <<1352891611, -147688386, -1181238257, -747872798, -50402983, -248808113, 719763481, -1640161454>>) @@
    (<<0, 20>> :> <<-470928009, -115025218, 794676338, -1793455163, 1297714938, 1642571422, -2043908432, 1450031202>>) @@
    (<<0, 21>> :> <<-599419573, 1232444256, -1780940171, -697938146, -1669443769, -1811869790, 942185190, 1662339865>>) @@
    (<<0, 22>> :> <<-873436270, -1165588421, 1995649331, -103768848, -1431795829, -1672286551, 2091889998, 880193998>>) @@
    (<<0, 23>> :> <<-216485934, -314861693, -1888007383, -892163923, 1751412189, 1438555857, 418666334, 1759783504>>) @@
    (<<0, 24>> :> <<-954757342, -1085762852, 1789178016, -1293456691, 5356106, 484316585, -1083649131, -1628755819>>) @@
    (<<0, 983040>> :> <<1564918360, 1726544737, -600686465, 1024807437, -1280584061, 723735823, 1570947218, -2118881711>>)

\* HMAC-SHA512 digests under the key of GEZDGNBVGY3TQOJQGEZDGNBVGY3TQOJQ, by message words
HmacSHA512RFC ==
    (<<0, -12>> :> <<-271567233, 938873567, 846118248, -999056044, 691572653, -1230112143, -130911910, -2030180631, 1918758334, 1089068276, -496064398, 1827067907, 86544442, 564973670, 1790646877, -527482871>>) @@
    (<<0, -11>> :> <<-996697056, -425393580, 759072596, -1834159507, 1697651891, -2110442961, 1349987825, 1339812131, -1768417165, -756296551, -1554777573, 1697854714, 253656388, -206960324, -371527701, -757335912>>) @@
    (<<0, -10>> :> <<-1007801620, -98952769, 2029275168, -1899858786, 808879771, -1236624485, -509312827, 676680508, -455249633, -1157090853, -664330725, 1117923953, -596444906, 1428580351, -2085663780, -208426277>>) @@
    (<<0, -9>> :> <<842084013, 2128493248, 1145604296, -2119238663, -1463186410, 194100968, -1053532379, -2021919657, -2116045981, 1848167524, 1312096303, -702373706, 1071375540, 171892654, -1925185323, 557059741>>) @@
    (<<0, -8>> :> <<-1482095333, 1157933215, -1265198416, -200663165, -640829423, -1702550137, 603054382, 1882820194, 2117157622, 1368856670, -1028673340, -345055764, -950959530, -1256082947, 620770605, -134537506>>) @@
    (<<0, -7>> :> <<-1206216767, -1774964360, -1765878933, 2018588458, 1632536484, -860865656, 1303255555, 1244281862, -1409310085, 605260107, 219118180, -1557560424, 1527075263, 2037644661, -644749750, -2075148800>>) @@
    (<<0, -6>> :> <<-291159624, -1354392124, -303347843, 2136774393, 991150087, -636859250, 2100683191, 1902730530, -375299104, 100316420, -710692389, -1920719856, -403258998, 1170382642, -696473375, 876466950>>) @@
    (<<0, -5>> :> <<-1164236971, -1215384134, 1687901555, -1308576641, -345335925, -1514233271, -462659730, -747343099, -1991284058, 1632351843, 752351528, -1426815136, 805754307, 1240013605, 737294903, -412417934>>) @@
    (<<0, -4>> :> <<1453828404, 1553611706, -814849051, 1047756883, 2017078060, -43450985, -251708929, -1561250281, 2080023513, -862584355, 1619431117, -1203234797, -1100399198, -1510232763, 446458143, -862629148>>) @@
    (<<0, -3>> :> <<412891734, -1992559383, 1339904103, -167009310, -687983642, -733980268, 1716486373, 1416748578, 173188202, 1577515502, 701995103, 1139142559, -1912673457, 849927579, -193855829, -1930812011>>) @@
    (<<0, -2>> :> <<-1791308516, -931926126, 373629983, -1304566956, 1119925174, -935458995, 962131317, -1306873285, 616771084, -1543947579, -1815981447, 1574876141, -1500320074, 1628467882, 843735609, 602773501>>) @@
    (<<0, -1>> :> <<748739357, -34777638, 321691709, -1414976711, -4004870, 358771008, 1402546732, -2122890719, 645488101, 751400528, -1116474428, -282806474, -1864101299, 770691225, -373957464, -2088740386>>) @@
    (<<0, 0>> :> <<-979107273, -311707475, 670578933, 137729589, -432143170, -769009593, -782031215, -1236627749, 954570881, 2117901920, -2135854948, 1855207691, -1162669557, -855991339, 604515055, -1731048767>>) @@
    (<<0, 1>> :> <<1755372028, 2137770211, 101338279, -1718221898, -1017296137, -1298261819, 1330614668, 608220283, 1838033707, 1189029361, 607152297, 640516552, -2019686443, 1234281964, 2017310520, 1259049229>>) @@
    (<<0, 2>> :> <<-587749367, -910778467, -1714538300, -1817575586, -1635087270, 610417587, -2088424761, 1419953410, 942762974, -1730018216, 1073356528, 903444774, 350663995, 1484360891, 1425617572, 2099268674>>) @@
    (<<0, 3>> :> <<2054965455, 622043699, 723924140, 1848759028, -1698104016, 316893943, -808233938, -1042806846, -319325046, -14089405, 1018177537, -207241278, 1997075807, 1498498085, 8913741, 647897030>>) @@
    (<<0, 4>> :> <<-1628360432, 1231872302, -565546138, -862092812, 1307101584, -612491961, -1225308315, -1231174084, -849508751, -1743211538, -410097565, -227454679, -2044896268, 92953745, -505652878, 1033071768>>) @@
    (<<0, 5>> :> <<1819783949, -1172474918, 1766115780, 1595621953, -1504278765, 176541862, 811963650, 1550955713, -570962651, -115239498, 1375858857, 1752993658, -615637321, 462406126, -1633605707, -1647927881>>) @@
    (<<0, 6>> :> <<-438705628, 836266680, 56866747, 1371487331, -1266563069, 853618738, 1821924740, -1119182641, 2047928450, 1945148220, -73958067, -190420109, 450577919, 1046602472, 786371285, 925203444>>) @@
    (<<0, 7>> :> <<1563093286, 122216011, 728453283, 1590526296, -1412983742, 766868452, 1501671053, -1240111630, -917681010, -1009719564, -1283972142, 652671905, -582973281, -1649979281, -935399275, 2058757598>>) @@
    (<<0, 8>> :> <<-1794204927, 669227807, 640679680, -8250981, -1489995434, 839438058, -1059336615, 437158280, 892701956, 1154372497, -1079795908, 2056892002, 142075507, 1579511863, 486957283, -1799201231>>) @@
    (<<0, 9>> :> <<1114728224, 1173706723, 1038016213, -1113840239, -1702116339, -1334820126, -1563972423, 296279981, -1184860113, 582908019, 1640119297, 1609826456, 1201631489, -807168928, -115325265, 2034842940>>) @@
    (<<0, 10>> :> <<-290944960, 1436777349, -1503192085, -113666880, 235432195, 1968435012, 1747080452, -224592677, -2095109249, -2118918479, 1200244922, -1989971581, -896990662, -2087172843, 305601619, -689775>>) @@
    (<<0, 11>> :> <<-823347485, 272703097, -885709873, 357137744, 1404830441, 2098273539, -1700224509, -852672569, -2000293876, 850696271, -1462145320, -1817618232, 299507971, -931792540, 454904687, 1189730685>>) @@
    (<<0, 12>> :> <<62059190, 875852806, 790347856, 1290147655, -750995887, -800793769, -1553973766, -2094209016, 696642015, 68817126, 432683967, 729643075, -1675807852, -169856835, -323196415, -657740777>>) @@
    (<<0, 13>> :> <<650266156, 813075414, -412950603, -276184481, -1488844883, -657554278, 1009996688, -1682307494, 1215660041, 874282067, 594826772, 806036946, -1149002586, 1181592198, -491161710, -2139588848>>) @@
    (<<0, 14>> :> <<-1603783970, 636762554, -1463126013, 42767884, 1045989166, -983777720, 230504262, -351542956, 1468193457, 1881379132, -1519416048, -42708814, 384063046, -757808479, 1290971255, -141894293>>) @@
    (<<0, 15>> :> <<1676620967, 1738386336, -37237455, 1143730255, 1079493992, -486629293, -782571607, -6968486, 1532508967, -1504342559, 1408049408, -1444205779, 980680370, 1875018022, -634349989, -1609939663>>) @@
    (<<0, 16>> :> <<-252895682, 2068279714, 1993948127, 896332782, 1379044966, -1694090148, -551641779, -337424606, 1892848626, -1868271143, -2070131331, -236342604, 2011420316, -1486577276, -1864824173, 719017088>>) @@
    (<<0, 17>> :> <<-1997445160, -194355087, 2080163922, -1985903526, 1104994689, -2041280536, 784394507, 2039011326, -1140320654, -2079716197, 2006038713, 1023754454, 228046602, 1769941532, -1385878584, -1815628430>>) @@
    (<<0, 18>> :> <<-1895106529, 421733955, 951811726, 858863616, 499391000, 1986279248, 1822302494, 1282618806, -1951191236, 1567225268, -329827485, -2006954550, -352377360, 482748247, 1616128559, -270046140>>) @@
    (<<0, 19>> :> <<-743354876, -1466877944, 519381687, 1183455369, -827409781, 1758484048, -2057661906, -179548339, 737775603, 666835213, 95389305, 1466819292, -764901050, 1817576521, -654473440, -1936888220>>) @@
    (<<0, 20>> :> <<1343366212, 1691312413, 1984287253, -503850685, 415046743, 1132160818, 996972098, -813047820, -152352842, 286887743, 1996478861, -1793442501, 467625075, -1094575841, 564963038, 1953878140>>) @@
    (<<0, 21>> :> <<1504475351, 1453913007, -1305881035, -1552716132, 1391625026, 1020446410, 301742252, 1967838662, 381572847, 764181923, 2094541298, 2100564401, 772794501, 245655273, -1562330060, 283652887>>) @@
    (<<0, 22>> :> <<2009936088, -2124352347, -2115996355, -1974269377, 1686034109, -1775899985, -1253020207, -1831238853, 252569910, -1463616997, 406817926, -792838790, 1116812798, 1692067510, 371370768, -1584608220>>) @@
    (<<0, 23>> :> <<-690104140, -1886515495, -1013764037, -2141271550, -1837746503, 236632045, 1989235558, -865947154, 735502709, -1143581086, -303649171, 1603036819, 1074688111, 2077004029, 2089921151, 68709194>>) @@
    (<<0, 24>> :> <<1094934550, -1604541424, -300559935, -986004379, 727641697, -541451929, 279897755, 1648864419, 233663602, -212275060, -1771354296, -1513453508, 1006955665, -1699990278, 1556094678, -783481975>>) @@
    (<<0, 983040>> :> <<-915157558, -1481831337, 570808344, -544931088, -1237669056, -1351177773, 1684545830, 1294956142, 30932531, -1419731226, -1251642181, 2066339298, 1162043828, -1862528202, -766109863, -323432953>>)

\* HMAC-SHA512 digests under the key of JBSWY3DPEHPK3PXPJBSWY3DPEHPK3PXP, by message words
HmacSHA512Other ==
    (<<0, -12>> :> <<2004580416, -829738236, 549836313, -969786588, 453847778, 1188514666, 820671431, -1681365450, -10107047, -1970941954, 832424912, -958452809, 2089715065, -40728761, 1848492540, 1832196019>>) @@
    (<<0, -11>> :> <<-1709640939, -1083388759, -541079747, 492399849, 1455791232, 195528010, 1103762472, -1222449083, -1014925921, 850972041, -240050079, 1660667588, 399277651, 142451766, -613431543, -1941289126>>) @@
    (<<0, -10>> :> <<1047589286, 1738578085, -1569833401, -611644354, 312154984, 251582441, -1909792849, 900236240, 1203015784, -1656913597, 1369217013, 64998972, -765826789, 1579054476, 175906438, -1218052111>>) @@
    (<<0, -9>> :> <<-1427441695, -322255292, -1503970166, -773417346, 1206876288, 1211624376, -280734344, 2074417219, 1690513383, -1878609764, 1657847401, -482813642, 173769999, -1699528105, -1917226283, -1567821702>>) @@
    (<<0, -8>> :> <<-282694035, -279714371, -270129519, -1226742915, 75381159, 1626329167, 335258127, -243774695, -1328369552, 1615157726, 204805462, 1652938563, 1913527187, 1715107215, 820446522, 1617211535>>) @@
    (<<0, -7>> :> <<82573011, 466632215, -235437675, -1104781923, -1775703852, 1151756598, -47507834, 1336536657, 861965437, -63970658, -1391008333, 914875769, -1478732526, -127399380, -178376902, -937090777>>) @@
    (<<0, -6>> :> <<547597360, -1927247945, 1921653526, 581935676, 844578170, -318728778, 2105078429, -1700331790, 1003831834, -1832892865, -1215639474, 1763181273, -555119135, 194758967, 587774079, 197222372>>) @@
    (<<0, -5>> :> <<1416178516, -2078268295, 2018621015, -2045804705, 639370556, 1728055234, -1220238897, 1308245360, 1109206894, -1611129632, 1340789887, 565903134, 210828371, 1704855605, -947708282, -915234592>>) @@
    (<<0, -4>> :> <<-348223421, -2002722700, -1195163940, 265795715, -614312908, -160314766, -1410755276, 623982368, 2004250918, -730781885, -996366072, 1868854848, -1775304877, -1846005519, -1845746230, -1093876578>>) @@
    (<<0, -3>> :> <<-854689436, -1029404988, -310890373, 1183155608, -961992722, 1343965015, -404271361, -22986839, -2045069381, -1714099577, 642778737, -1230732627, 938723421, -1480137499, -715024568, 910294337>>) @@
    (<<0, -2>> :> <<-339563959, 1088228174, -1772103427, -933445588, -649779123, -1710560206, 1560491961, 2006290780, 473562578, 1988336707, -942024295, 759123232, -1008677418, -845298561, 1900692430, -1974944329>>) @@
    (<<0, -1>> :> <<-1695018158, -2000913757, -226880874, 865860054, 1146240129, -605683765, 1747757931, -2143776205, 181788643, 1666261342, -1881917233, -460324234, -17080496, -1020330689, 756728879, 966387324>>) @@
    (<<0, 0>> :> <<1979835888, 1205748525, 1137006042, 8877574, 1719068165, 228036869, -1416851728, 1488823094, 799400291, 23502001, -418422102, 281426731, -2049697313, -1159244651, -1957000929, -399596916>>) @@
    (<<0, 1>> :> <<-40609595, 712231431, -266084862, -421790904, -1558447069, 264878531, -1901421115, 263530906, 1844181223, 1826032379, 2076688919, -25481552, -843105189, 1845809453, -17942832, 1837137311>>) @@
    (<<0, 2>> :> <<1462201876, 1640449048, 861740317, -642278236, -1200108670, 1570762651, 1763009772, -698652146, -763273620, -56534290, 324696457, 642744955, -138366601, -1781876166, -1405910453, -2043370391>>) @@
    (<<0, 3>> :> <<1403689464, -1648974113, -1197360586, 1409109627, 1640513426, -789554168, 596415802, -1740534211, -820971915, -1423661901, 1563624829, 2124686778, 365194385, -2031359298, 1971184521, -1192601030>>) @@
    (<<0, 4>> :> <<-834150021, -230456491, 305786363, -1979333334, -1626116528, 1897154648, 166390692, 1257205850, -1152770821, 1978425585, -1223066899, 285787126, -110474568, 1116282539, 1370849812, 742990428>>) @@
    (<<0, 5>> :> <<830360234, 1740716407, -1012184989, -1217824082, 587761347, -868409936, 1818114850, 1456572766, -1188930485, 816054472, 565053747, 854235368, 1456433384, -1487155957, -12471432, -229655596>>) @@
    (<<0, 6>> :> <<-1103436228, 1652061828, 574375141, -2002129096, -860878296, 342793904, 632543809, 1475884981, -1979193865, -1551632723, 1147150030, -1767800160, 1872412661, -156089821, -1323443743, -630575272>>) @@
    (<<0, 7>> :> <<-1089513794, 2137701156, -1623217896, -1061801388, -1741483626, 2056644923, 241582488, 846194829, -1378873826, 898095956, 1652319399, -599559060, -1703275290, -985555105, 2057290376, 1964137456>>) @@
    (<<0, 8>> :> <<-1000050040, -1446761334, 81775154, 1389587231, -1904488407, 1167185564, 2065520504, -1928515157, -850657036, 12457815, 1798836462, 1673207755, 1031342344, 2034860437, -23034465, 872684380>>) @@
    (<<0, 9>> :> <<1006078136, 915659613, 1032174731, 1215011567, 1061739452, 1992644092, -1154803481, -1144382771, -1035445364, -1654424165, -531114442, -941262218, 910343581, -1312774727, 1191623117, 1918971954>>) @@
    (<<0, 10>> :> <<1120854154, 1897160870, 1920162317, -769132047, 236492433, -1689466434, 533116382, -864578567, -686883425, 1723618891, -541515020, -719615979, 38476239, -1442418294, -974137819, 1885539801>>) @@
    (<<0, 11>> :> <<515706843, 31528063, -1725995387, -826250464, -508993875, -224212050, -483846871, 715417653, -198320884, -84928935, -1174655636, 1294379854, 1086899479, -1273996391, -1822255223, 1701682841>>) @@
    (<<0, 12>> :> <<-797209480, -419156339, -50460146, -2093936326, -1173779146, -463277288, 1695440257, 1903799731, -946932066, 1744212830, -2090031816, -1400261368, 908421829, 1845266159, -363041429, 1291057530>>) @@
    (<<0, 13>> :> <<841334223, -262044716, -1521446851, -1549763039, -638060016, -539919223, -1094415394, 898254297, -1548135263, -853919398, -1124438969, -1824067491, 1360913029, -1649476805, 247736673, 822775641>>) @@
    (<<0, 14>> :> <<383522149, 2076636744, 669855143, -326449145, 323574490, 470128988, -1983328748, -2004651326, -823414509, 2007361536, 1616964343, -2107893634, -838923821, 1224412229, -2081322894, -947989601>>) @@
    (<<0, 15>> :> <<-795396063, 1128760239, -1573409269, 1747547019, -797282632, -263767405, -1826236466, 703097966, -2129324593, 342531543, 126493328, -561448775, -864983709, -962562639, -1767160786, 741825235>>) @@
    (<<0, 16>> :> <<-1789019834, 223290284, -1532939562, 29618599, -24472362, -847326779, -289696445, -1217851566, 1901381151, 1911559639, 1515939278, 349715467, 1919094383, 1386540394, 1072374533, 937072563>>) @@
    (<<0, 17>> :> <<-598416341, -1756324529, -900566715, 636415264, 1461264211, -823819156, -1742032573, 391852592, 1612154521, 553797070, -381044961, -1993863128, 439879346, -1857163977, -1658215787, 149134559>>) @@
    (<<0, 18>> :> <<804444919, 1046195491, 651748264, -137582823, 1560282916, -1680139401, 239260706, 897331391, 1011236557, 944890744, -1036083384, 1981531236, 1602169881, -1817403472, -1123690178, 1867685513>>) @@
    (<<0, 19>> :> <<142059103, -2028312064, 1371799086, -1361324231, 389432836, -903837769, 1506377943, -924961067, 410639279, -1561582938, -506227387, 1686659119, -202556730, 1619968406, 657564584, -1308794271>>) @@
    (<<0, 20>> :> <<1680383745, 1244006714, 160481312, -435401969, -1652469986, -1695751410, -465044841, 727781184, 1947551356, -1847778761, -1197166053, -181491596, 1361597935, 190560350, 1110775053, 730546114>>) @@
    (<<0, 21>> :> <<1296682332, 1686839606, 1895788239, 1421590, 613317416, -1769662371, 1308180342, 271352613, 1566029142, 204580018, 1643211529, -473523264, 394702202, 1824305538, -214101784, 1917913354>>) @@
    (<<0, 22>> :> <<1239120541, -1944827117, -134297890, 998540991, -641921875, -1824755046, 618919017, -447367753, -1227775936, -344476917, -1845336530, 723128036, 1948552959, -882827755, -1626966833, 307549937>>) @@
    (<<0, 23>> :> <<106669611, -1900616760, 1412226078, 851846058, 1666632796, 1934648203, -402801521, -1865775116, 607426584, 1413563813, 739419306, 1268973459, -293942497, -1399047128, 1467591907, 371021047>>) @@
    (<<0, 24>> :> <<-1227308919, 1783798101, -325328470, -549166118, -1836366579, -103762995, 304866084, -68761385, -1825357095, -175929196, -89136957, 356492310, 1143283140, -1145128563, 1401663683, -1205008199>>) @@
    (<<0, 983040>> :> <<-1761033970, 779129458, -2130061030, 1935053477, 83810525, 379541336, 1404706505, -105791905, -1276464959, -1994898545, 1242018776, 896159308, -1778346762, 602853253, -1629585386, 1148488476>>)

\* the digest words of each hash function, by secret and message words
HmacTable ==
    [HmacSHA1 |-> (RFCSecret :> HmacSHA1RFC) @@ (OtherSecret :> HmacSHA1Other),
     HmacSHA256 |-> (RFCSecret :> HmacSHA256RFC) @@ (OtherSecret :> HmacSHA256Other),
     HmacSHA512 |-> (RFCSecret :> HmacSHA512RFC) @@ (OtherSecret :> HmacSHA512Other)]

\* base32.decode(secret), as the key HmacTable is indexed by
Base32Decode(text) == text

\* this.#hash(message, key): the digest as a WordArray
Hmac(hashFn, message, key) ==
    LET words == HmacTable[hashFn][key][message.words]
    IN  [words |-> words, sigBytes |-> 4 * Len(words)]

----------------------------------------------------------------------------
(* The instance. *)

Algorithms == {"SHA1", "SHA256", "SHA512"}

\* a faulty setHash, whose default case falls back to SHA1 and throws nothing
setHashFallback(alg) ==
    CASE alg = "SHA256" -> {"HmacSHA256"}
      [] alg = "SHA512" -> {"HmacSHA512"}
      [] OTHER -> {"HmacSHA1"}

\* setHash: the hash function of the algorithm, {} when it throws
setHash(alg) ==
    CASE alg = "SHA1" -> {"HmacSHA1"}
      [] alg = "SHA256" -> {"HmacSHA256"}
      [] alg = "SHA512" -> {"HmacSHA512"}
      [] OTHER -> {}

\* hmacBytes[i]! & mask, for a mask 2^k - 1; undefined & mask is 0
ByteAnd(hmacBytes, i, mask) ==
    IF i + 1 \in DOMAIN hmacBytes THEN hmacBytes[i + 1] % (mask + 1) ELSE 0

\* the offset of hotp's dynamic truncation
TruncationOffset(hmacBytes) == ByteAnd(hmacBytes, Len(hmacBytes) - 1, 15)

\* a faulty truncation, which keeps the top bit of the first byte (& 0xff)
BinCodeUnmasked(hmacBytes, offset) ==
    Or32(Or32(Or32(Shl32(ByteAnd(hmacBytes, offset, 255), 24),
                   Shl32(ByteAnd(hmacBytes, offset + 1, 255), 16)),
              Shl32(ByteAnd(hmacBytes, offset + 2, 255), 8)),
         ByteAnd(hmacBytes, offset + 3, 255))

\* the 31-bit number hotp takes from the digest at the offset
BinCode(hmacBytes, offset) ==
    Or32(Or32(Or32(Shl32(ByteAnd(hmacBytes, offset, 127), 24),
                   Shl32(ByteAnd(hmacBytes, offset + 1, 255), 16)),
              Shl32(ByteAnd(hmacBytes, offset + 2, 255), 8)),
         ByteAnd(hmacBytes, offset + 3, 255))

\* code.toString().padStart(this.#digits, '0')
FormatCode(code, nDigits) == PadStart(NumToString(Finite(code), 10), nDigits, "0")

\* hotp's return value and its locals, once code is computed
hotpResult(counter, hmacBytes, offset, binCode, code) ==
    [counter |-> counter, hmacLength |-> Len(hmacBytes), offset |-> offset,
     binCode |-> binCode, code |-> code, otp |-> FormatCode(code, digits)]

\* a faulty hotp, which does not reduce the 31-bit number
hotpTruncateUnreduced(counter, hmacBytes, offset, binCode) ==
    hotpResult(counter, hmacBytes, offset, binCode, binCode)

\* hotp from the truncation on; code is the 31-bit number % 10 ** this.#digits
hotpTruncate(counter, hmacBytes, offset, binCode) ==
    hotpResult(counter, hmacBytes, offset, binCode, binCode % Pow10(digits))

\* hotp from the digest bytes on
hotpFromBytes(counter, hmacBytes, offset) ==
    hotpTruncate(counter, hmacBytes, offset, BinCode(hmacBytes, offset))

\* hotp from the digest on
hotpFromHmac(counter, hmacBytes) ==
    hotpFromBytes(counter, hmacBytes, TruncationOffset(hmacBytes))

\* the body of hotp for a counter: its locals and the string it returns
hotpEval(counter) ==
    hotpFromHmac(counter,
        wordArrayToBytes(Hmac(hash, numberToWordArray(counter), Base32Decode(secret))))

\* Math.floor(timestamp / 1000 / p) for integers timestamp and p; the
\* floating-point quotient rounds to the exact floor for the timestamps of
\* the model
FloorDiv(timestamp, p) ==
    CASE p > 0 -> Finite(timestamp \div (1000 * p))
      [] p < 0 -> Finite(-((timestamp + 1000 * (-p) - 1) \div (1000 * (-p))))
      [] p = 0 /\ timestamp > 0 -> Infinity
      [] p = 0 /\ timestamp < 0 -> NegInfinity
      [] OTHER -> NaN

\* if (options.period): undefined and 0 are falsy
Truthy(opt) == opt # Undefined /\ opt # {0}

\* a faulty totp, which stores options.period ?? 30
totpPeriodReset(options) == Coalesce(options.period, 30)

\* the period totp stores: if (options.period) this.#period = options.period
totpPeriod(options) == IF Truthy(options.period) THEN Coalesce(options.period, 0) ELSE period

\* a faulty totpVerify, which honours the period of its own options
totpVerifyPeriodOwn(options) == Coalesce(options.period, period)

\* the period totpVerify computes its counters with
totpVerifyPeriod(options) == period

\* a faulty loop, which starts one step late
totpVerifyFirstLate(window) == -window + 1

\* a faulty loop, which looks ahead only
totpVerifyFirstAhead(window) == 0

\* the first i of totpVerify's loop
totpVerifyFirst(window) == -window

RECURSIVE totpVerifyLoop(_, _, _, _, _)
\* for (let i = ...; i <= window; i++): whether some step returns true
totpVerifyLoop(code, timestamp, p, window, i) ==
    IF i > window
    THEN FALSE
    ELSE LET counter == NumAdd(FloorDiv(timestamp, p), i)
         IN  IF hotpEval(counter).otp = code
             THEN TRUE
             ELSE totpVerifyLoop(code, timestamp, p, window, i + 1)

NoLocals == [counter |-> NaN, hmacLength |-> 0, offset |-> 0, binCode |-> 0,
             code |-> 0, otp |-> <<>>]

NoOptions == [algorithm |-> Undefined, digits |-> Undefined, secret |-> Undefined,
              period |-> Undefined, counter |-> Undefined, timestamp |-> Undefined,
              window |-> Undefined, code |-> Undefined]

\* the record of a call
Call(op, options, now, otp, valid, error, locals) ==
    [op |-> op, options |-> options, timestamp |-> now, otp |-> otp, valid |-> valid,
     error |-> error, locals |-> locals]

\* new OTP(options); generated is what generateSecret returns when it is called
constructor(options, generated) ==
    LET alg == Coalesce(options.algorithm, "SHA1")
        fn == setHash(alg)
    IN  /\ algorithm = alg
        /\ digits = Coalesce(options.digits, 6)
        /\ period = Coalesce(options.period, 30)
        /\ secret = Coalesce(options.secret, generated)
        /\ hash = Coalesce(fn, "HmacSHA1")
        /\ status = IF fn = {} THEN "failed" ELSE "constructed"
        /\ last = Call("constructor", options, 0, <<>>, FALSE,
                       IF fn = {} THEN "InvalidAlgorithmError" ELSE "", NoLocals)

\* hotp(options)
hotp(options) ==
    /\ status = "constructed"
    /\ LET r == hotpEval(Finite(Coalesce(options.counter, 0)))
       IN  last' = Call("hotp", options, 0, r.otp, FALSE, "", r)
    /\ UNCHANGED <<status, algorithm, digits, secret, period, hash>>

\* totp(options); now is what Date.now() returns when it is called
totp(options, now) ==
    /\ status = "constructed"
    /\ LET timestamp == Coalesce(options.timestamp, now)
           p == totpPeriod(options)
           counter == FloorDiv(timestamp, p)
           r == hotpEval(counter)
       IN  /\ period' = p
           /\ last' = Call("totp", options, timestamp, r.otp, FALSE, "", r)
    /\ UNCHANGED <<status, algorithm, digits, secret, hash>>

\* a faulty hotpVerify, which also accepts the code of the next counter
hotpVerifyLookAhead(options) ==
    /\ status = "constructed"
    /\ LET code == Coalesce(options.code, <<>>)
           counter == Finite(Coalesce(options.counter, 0))
       IN  last' = Call("hotpVerify", options, 0, <<>>,
                        \/ hotpEval(counter).otp = code
                        \/ hotpEval(NumAdd(counter, 1)).otp = code,
                        "", NoLocals)
    /\ UNCHANGED <<status, algorithm, digits, secret, period, hash>>

\* hotpVerify(options)
hotpVerify(options) ==
    /\ status = "constructed"
    /\ LET code == Coalesce(options.code, <<>>)
           counter == Finite(Coalesce(options.counter, 0))
           otp == hotpEval(counter).otp
       IN  last' = Call("hotpVerify", options, 0, <<>>, otp = code, "", NoLocals)
    /\ UNCHANGED <<status, algorithm, digits, secret, period, hash>>

\* totpVerify(options); now is what Date.now() returns when it is called
totpVerify(options, now) ==
    /\ status = "constructed"
    /\ LET code == Coalesce(options.code, <<>>)
           timestamp == Coalesce(options.timestamp, now)
           window == Coalesce(options.window, 1)
           valid == totpVerifyLoop(code, timestamp, totpVerifyPeriod(options), window,
                                   totpVerifyFirst(window))
       IN  last' = Call("totpVerify", options, timestamp, <<>>, valid, "", NoLocals)
    /\ UNCHANGED <<status, algorithm, digits, secret, period, hash>>

----------------------------------------------------------------------------
(* The callers: the options they pass and what the clock reads. *)

TickMs == 15 * 1000

\* the timestamps the calls are given, in milliseconds
Timestamps == {0} \cup {k * TickMs - j : k \in 1..MaxTick, j \in {0, 1}}

\* what Date.now() reads when a call gives no timestamp
ClockReadings == {TickMs + 1}

UnsupportedAlgorithm == "MD5"

\* the options of the constructor: each algorithm with each digit count for
\* a given secret, and each period with a generated secret
OTPGeneratorOptions ==
    {[NoOptions EXCEPT !.algorithm = a, !.digits = d, !.secret = Some(RFCSecret)] :
        a \in {Undefined, Some("SHA256"), Some("SHA512"), Some(UnsupportedAlgorithm)},
        d \in {Undefined, Some(1), Some(MaxDigits)}}
    \cup {[NoOptions EXCEPT !.period = p] : p \in {Undefined, Some(0), Some(-30)}}

\* what generateSecret can return
GeneratedSecrets == {OtherSecret}

HOTPOptions == {[NoOptions EXCEPT !.counter = Some(c)] : c \in 0..MaxCounter}

TimestampOptions == {Undefined} \cup {Some(ts) : ts \in Timestamps}

TOTPOptions ==
    {[NoOptions EXCEPT !.timestamp = t, !.period = p] :
        t \in TimestampOptions, p \in {Undefined, Some(0), Some(15), Some(-30)}}

\* the code '123456' of the tests
WrongCode == <<"1", "2", "3", "4", "5", "6">>

\* the codes a caller presents: the one an authenticator holding the secret
\* shows for the counter 1, and a wrong one
Candidates == {WrongCode, hotpEval(Finite(1)).otp}

HOTPVerify ==
    {[NoOptions EXCEPT !.counter = Some(c), !.code = Some(x)] :
        c \in 0..MaxCounter, x \in Candidates}

WindowOptions == {Undefined, Some(-1), Some(0)} \cup {Some(w) : w \in 2..MaxWindow}

TOTPVerifyOptions ==
    {[NoOptions EXCEPT !.timestamp = t, !.window = w, !.code = Some(x)] :
        t \in TimestampOptions, w \in WindowOptions, x \in Candidates}

NoCode == [op |-> "none", otp |-> <<>>, timestamp |-> 0, period |-> 0, counter |-> NaN,
           override |-> Undefined]

Init ==
    /\ \E options \in OTPGeneratorOptions : \E generated \in GeneratedSecrets :
           constructor(options, generated)
    /\ held = NoCode

\* any call on the instance, by callers that keep no code
Next ==
    \/ \E options \in HOTPOptions : hotp(options) /\ UNCHANGED held
    \/ \E options \in TOTPOptions : \E now \in ClockReadings :
           totp(options, now) /\ UNCHANGED held
    \/ \E options \in HOTPVerify : hotpVerify(options) /\ UNCHANGED held
    \/ \E options \in TOTPVerifyOptions : \E now \in ClockReadings :
           totpVerify(options, now) /\ UNCHANGED held

Spec == Init /\ [][Next]_vars

(* A session: the caller keeps the code totp returned and presents it later. *)

StepMs == 30 * 1000

\* the times a session generates its code at: the first and the last
\* millisecond of a 30-second step, and the one a second before its end
SessionStarts ==
    {s * StepMs + r : s \in 0..MaxStartStep, r \in {0, StepMs - 1000, StepMs - 1}}

SessionTOTPOptions ==
    {[NoOptions EXCEPT !.timestamp = Some(ts), !.period = p] :
        ts \in SessionStarts, p \in {Undefined, Some(15), Some(30)}}

\* how long after it was generated the code is presented
SessionDelays == {0, StepMs, 2 * StepMs + 1000}

SessionVerifyOptions ==
    {[NoOptions EXCEPT !.timestamp = Some(held.timestamp + d), !.window = w,
                       !.code = Some(held.otp), !.period = p] :
        d \in SessionDelays,
        w \in {Undefined, Some(0)} \cup {Some(n) : n \in 2..MaxWindow},
        p \in {Undefined, Some(60)}}

SessionTotp ==
    /\ \E options \in SessionTOTPOptions : \E now \in ClockReadings : totp(options, now)
    /\ held' = [op |-> "totp", otp |-> last'.otp, timestamp |-> last'.timestamp,
                period |-> period', counter |-> last'.locals.counter,
                override |-> last'.options.period]

SessionTotpVerify ==
    /\ held.op = "totp"
    /\ \E options \in SessionVerifyOptions : \E now \in ClockReadings :
           totpVerify(options, now)
    /\ UNCHANGED held

SessionNext == SessionTotp \/ SessionTotpVerify

SessionSpec == Init /\ [][SessionNext]_vars

----------------------------------------------------------------------------
(* The properties. *)

LastCode == Coalesce(last.options.code, <<>>)

LastWindow == Coalesce(last.options.window, 1)

LastCounter == Finite(Coalesce(last.options.counter, 0))

\* the code of the instance for a counter
CodeAt(counter) == hotpEval(counter).otp

\* the time step of the last call's timestamp under a period
StepOf(p) == FloorDiv(last.timestamp, p)

\* whether a code is the code of one of the steps base-w .. base+w
InWindow(code, base, w) == \E i \in (-w)..w : CodeAt(NumAdd(base, i)) = code

\* C1: totpVerify returns true if and only if the candidate is the code of
\* one of the steps baseCounter-w .. baseCounter+w, baseCounter being
\* floor(t / 1000 / period); a window of 0 checks the current step alone and
\* a negative window accepts nothing.
WindowSymmetry ==
    last.op = "totpVerify" =>
        /\ last.valid = InWindow(LastCode, StepOf(period), LastWindow)
        /\ LastWindow = 0 => (last.valid = (CodeAt(StepOf(period)) = LastCode))
        /\ LastWindow < 0 => ~last.valid

\* a code of the step before the current one is accepted with the default
\* window although it is not the current code
WindowSymmetryWitness ==
    /\ last.op = "totpVerify"
    /\ last.options.window = Undefined
    /\ last.valid
    /\ CodeAt(StepOf(period)) # LastCode
    /\ CodeAt(NumAdd(StepOf(period), -1)) = LastCode

\* C2: a period override given to totp replaces the stored period: after
\* the call the period accessor returns it, and the call computed its
\* counter with it.
OverrideReplacesPeriod ==
    (last.op = "totp" /\ last.options.period # Undefined) =>
        /\ period = Coalesce(last.options.period, 0)
        /\ last.locals.counter = StepOf(Coalesce(last.options.period, 0))

\* C3: no totp or totpVerify call returns a code or a boolean computed with
\* a period <= 0.
NonPositivePeriodRejected ==
    (last.op \in {"totp", "totpVerify"} /\ last.error = "") => period > 0

\* C4: an algorithm outside SHA1, SHA256, SHA512 fails the construction with
\* InvalidAlgorithmError, so that every instance has a supported algorithm
\* and its hash function, and no other call raises that error.
UnsupportedAlgorithmFailsConstruction ==
    /\ algorithm \notin Algorithms =>
           /\ status = "failed"
           /\ last.op = "constructor"
           /\ last.error = "InvalidAlgorithmError"
    /\ status = "constructed" =>
           /\ algorithm \in Algorithms
           /\ hash = "Hmac" \o algorithm
    /\ last.op # "constructor" => (status = "constructed" /\ last.error = "")

\* a construction with the algorithm MD5 has failed
UnsupportedAlgorithmWitness ==
    /\ status = "failed"
    /\ last.op = "constructor"
    /\ last.options.algorithm = Some(UnsupportedAlgorithm)
    /\ last.error = "InvalidAlgorithmError"

\* the caller presents, with window 1, the code totp gave it under period 30
PresentsHeldCode ==
    /\ last.op = "totpVerify"
    /\ held.op = "totp"
    /\ held.period = 30
    /\ period = 30
    /\ LastCode = held.otp
    /\ LastWindow = 1

\* C5: a code generated at time T with period 30 verifies with window 1 at
\* T + 30 s and fails to verify at T + 61 s.
ExpiryBoundary ==
    PresentsHeldCode =>
        /\ last.timestamp = held.timestamp + StepMs => last.valid
        /\ last.timestamp = held.timestamp + 2 * StepMs + 1000 => ~last.valid

\* C5, amended: a code generated at time T with period 30 verifies with
\* window 1 at T + 30 s; at T + 61 s the window lies wholly after the step
\* of T, and the code verifies only if it is also the code of one of the
\* four steps that follow the step of T.
ExpiryBoundaryUnlessRepeated ==
    PresentsHeldCode =>
        /\ last.timestamp = held.timestamp + StepMs => last.valid
        /\ last.timestamp = held.timestamp + 2 * StepMs + 1000 =>
               /\ held.counter.n < StepOf(30).n - 1
               /\ last.valid => \E k \in 1..4 : CodeAt(NumAdd(held.counter, k)) = held.otp

\* a code is presented 61 s after it was generated, and is rejected
ExpiryBoundaryWitness ==
    /\ PresentsHeldCode
    /\ last.timestamp = held.timestamp + 2 * StepMs + 1000
    /\ ~last.valid

RECURSIVE DecimalValue(_)
\* the number a string of decimal digits denotes
DecimalValue(str) ==
    IF str = <<>>
    THEN 0
    ELSE 10 * DecimalValue(SubSeq(str, 1, Len(str) - 1))
            + (CHOOSE d \in 0..9 : DecChars[d + 1] = str[Len(str)])

\* C6: for a non-negative counter the string hotp (and totp) returns has
\* exactly digits characters, all decimal digits, and denotes the 31-bit
\* number modulo 10^digits.
DigitLength ==
    (/\ last.op \in {"hotp", "totp"}
     /\ last.locals.counter.k = "finite"
     /\ last.locals.counter.n >= 0) =>
        /\ Len(last.otp) = digits
        /\ \A i \in 1..Len(last.otp) : \E d \in 0..9 : DecChars[d + 1] = last.otp[i]
        /\ DecimalValue(last.otp) = last.locals.binCode % Pow10(digits)

\* a code of more than one digit that starts with a padding zero
DigitLengthWitness ==
    /\ last.op \in {"hotp", "totp"}
    /\ last.locals.counter.k = "finite"
    /\ last.locals.counter.n >= 0
    /\ digits > 1
    /\ last.otp[1] = "0"

\* C7: hotpVerify returns true exactly when the candidate is the code of the
\* given counter; the code of the next counter, when it differs, is rejected.
HotpVerifyExact ==
    last.op = "hotpVerify" =>
        /\ last.valid = (LastCode = CodeAt(LastCounter))
        /\ (/\ LastCode = CodeAt(NumAdd(LastCounter, 1))
            /\ LastCode # CodeAt(LastCounter)) => ~last.valid

\* the code of the next counter is presented and rejected
HotpVerifyExactWitness ==
    /\ last.op = "hotpVerify"
    /\ LastCode = CodeAt(NumAdd(LastCounter, 1))
    /\ LastCode # CodeAt(LastCounter)
    /\ ~last.valid

\* C8: no call changes the secret, the algorithm, the digits (or the hash
\* function) of an instance, and the stored period changes only in a totp
\* call that carries a period override.
FieldsFrame ==
    [][status = "constructed" =>
          /\ status' = status
          /\ secret' = secret
          /\ algorithm' = algorithm
          /\ digits' = digits
          /\ hash' = hash
          /\ period' # period => (last'.op = "totp" /\ last'.options.period # Undefined)
          /\ last'.op \in {"hotp", "hotpVerify", "totpVerify"} => period' = period]_vars

\* a totp call with an override has changed the period of an instance
\* constructed with the default period
FieldsFrameWitness ==
    /\ last.op = "totp"
    /\ last.options.period = Some(15)
    /\ period = 15

\* byte i (from 0) of a digest given as 32-bit words
DigestByte(words, i) == (words[(i \div 4) + 1] \div Pow2(8 * (3 - (i % 4)))) % 256

\* the digest hotp computed in the last call
LastDigest == HmacTable[hash][secret][numberToWordArray(last.locals.counter).words]

\* C9: the truncation offset is the low nibble of the last digest byte, the
\* four bytes at the offset lie inside the digest of 20, 32 or 64 bytes, and
\* the number taken is their big-endian value with the top bit cleared, so
\* between 0 and 2^31 - 1.
TruncationInsideDigest ==
    last.op \in {"hotp", "totp"} =>
        LET l == last.locals
            n == 4 * Len(LastDigest)
        IN  /\ l.hmacLength = n
            /\ n \in {20, 32, 64}
            /\ l.offset = DigestByte(LastDigest, n - 1) % 16
            /\ l.offset \in 0..15
            /\ l.offset + 3 < n
            /\ l.binCode >= 0
            /\ l.binCode <= 2147483647
            /\ l.binCode \div 16777216 = DigestByte(LastDigest, l.offset) % 128
            /\ (l.binCode \div 65536) % 256 = DigestByte(LastDigest, l.offset + 1)
            /\ (l.binCode \div 256) % 256 = DigestByte(LastDigest, l.offset + 2)
            /\ l.binCode % 256 = DigestByte(LastDigest, l.offset + 3)
            /\ l.code = l.binCode % Pow10(digits)

\* the first of the four bytes had its top bit set, in a digest of 64 bytes
\* whose truncation starts past the first twelve bytes
TruncationWitness ==
    /\ last.op \in {"hotp", "totp"}
    /\ last.locals.hmacLength = 64
    /\ DigestByte(LastDigest, last.locals.offset) >= 128
    /\ last.locals.offset >= 12

====
